---------------------------- MODULE Spec2Model ----------------------------
(***************************************************************************)
(* Model of data/download_attention.py: the subject selector, the catalog  *)
(* filter, the per-file download/verify loop, the directory pruning and    *)
(* the manifest write of main.                                             *)
(*                                                                         *)
(* Python strings that the code inspects character by character (subject   *)
(* specs, catalog names, directory entry names) are sequences of           *)
(* one-character strings.  URLs, checksums and file contents, which the    *)
(* code only compares and copies, are TLA+ strings.                        *)
(***************************************************************************)
EXTENDS Integers, Sequences, FiniteSets, TLC

(***************************************************************************)
(* Bounds of the model.                                                    *)
(***************************************************************************)
MaxSpecs == 2
MaxFiles == 2
MaxCat == 2
MaxPre == 2
MaxRuns == 2

(***************************************************************************)
(* Characters and the str methods the code uses.                           *)
(***************************************************************************)
UpperCase == <<"A","B","C","D","E","F","G","H","I","J","K","L","M",
               "N","O","P","Q","R","S","T","U","V","W","X","Y","Z">>
LowerCase == <<"a","b","c","d","e","f","g","h","i","j","k","l","m",
               "n","o","p","q","r","s","t","u","v","w","x","y","z">>
DigitChars == <<"0","1","2","3","4","5","6","7","8","9">>
\* the characters of the model in code-point order (the order sorted() uses)
Ascii == <<" ", "-", ".">> \o DigitChars \o UpperCase \o <<"_">> \o LowerCase
Chars == {Ascii[i] : i \in 1..Len(Ascii)}
Digits == {DigitChars[i] : i \in 1..Len(DigitChars)}
Whitespace == {" "}

Ord == [c \in Chars |-> CHOOSE i \in 1..Len(Ascii) : Ascii[i] = c]

LowerMap == [c \in Chars |->
               IF \E i \in 1..Len(UpperCase) : UpperCase[i] = c
               THEN LowerCase[CHOOSE i \in 1..Len(UpperCase) : UpperCase[i] = c]
               ELSE c]
UpperMap == [c \in Chars |->
               IF \E i \in 1..Len(LowerCase) : LowerCase[i] = c
               THEN UpperCase[CHOOSE i \in 1..Len(LowerCase) : LowerCase[i] = c]
               ELSE c]

\* str.lower()
Lower(s) == [i \in 1..Len(s) |-> LowerMap[s[i]]]
\* str.upper()
Upper(s) == [i \in 1..Len(s) |-> UpperMap[s[i]]]

\* str.strip()
Strip(s) ==
    LET keep == {i \in 1..Len(s) : s[i] \notin Whitespace}
    IN  IF keep = {} THEN <<>>
        ELSE LET lo == CHOOSE i \in keep : \A j \in keep : i <= j
                 hi == CHOOSE i \in keep : \A j \in keep : i >= j
             IN  SubSeq(s, lo, hi)

\* str.endswith(t)
EndsWith(s, t) ==
    /\ Len(t) <= Len(s)
    /\ SubSeq(s, Len(s) - Len(t) + 1, Len(s)) = t

\* t in s
Contains(s, t) ==
    \E p \in 1..(Len(s) - Len(t) + 1) : SubSeq(s, p, p + Len(t) - 1) = t

\* lexicographic string order, as Python compares str
RECURSIVE StrLess(_, _)
StrLess(a, b) ==
    IF b = <<>> THEN FALSE
    ELSE IF a = <<>> THEN TRUE
    ELSE IF Ord[Head(a)] # Ord[Head(b)] THEN Ord[Head(a)] < Ord[Head(b)]
    ELSE StrLess(Tail(a), Tail(b))

\* sorted(set of str)
RECURSIVE Sorted(_)
Sorted(S) ==
    IF S = {} THEN <<>>
    ELSE LET m == CHOOSE x \in S : \A y \in S \ {x} : StrLess(x, y)
         IN  <<m>> \o Sorted(S \ {m})

\* set(list)
Range(q) == {q[i] : i \in 1..Len(q)}

\* the value None (and every other falsy str result) of the code
None == <<>>

(***************************************************************************)
(* The subject tables.                                                     *)
(***************************************************************************)
S_KEYS == << <<"S","1">>, <<"S","2">>, <<"S","3">>, <<"S","4">> >>
S_TO_SUB ==
    (<<"S","1">> :> <<"s","u","b","-","0","6">>) @@
    (<<"S","2">> :> <<"s","u","b","-","0","7">>) @@
    (<<"S","3">> :> <<"s","u","b","-","0","4">>) @@
    (<<"S","4">> :> <<"s","u","b","-","0","1">>)
SUB_CODES == {S_TO_SUB[k] : k \in DOMAIN S_TO_SUB}
SUB_TO_S == [v \in SUB_CODES |-> CHOOSE k \in DOMAIN S_TO_SUB : S_TO_SUB[k] = v]

(***************************************************************************)
(* _normalize_sub_code: re.search(r"sub[-_]?0?([1-9]\d?)", s) on the       *)
(* stripped, lower-cased string.                                           *)
(***************************************************************************)
CharAt(s, k) == IF k >= 1 /\ k <= Len(s) THEN s[k] ELSE ""

\* ([1-9]\d?) at position r: the group's text, <<>> when it does not match
re_group(s, r) ==
    IF CharAt(s, r) \in (Digits \ {"0"})
    THEN IF CharAt(s, r + 1) \in Digits
         THEN <<s[r], s[r + 1]>>
         ELSE <<s[r]>>
    ELSE <<>>

\* 0?([1-9]\d?) at position q: greedy 0, then without it
re_zero(s, q) ==
    IF CharAt(s, q) = "0" /\ re_group(s, q + 1) # <<>>
    THEN re_group(s, q + 1)
    ELSE re_group(s, q)

\* the whole pattern anchored at position p
re_match_at(s, p) ==
    IF SubSeq(s, p, p + 2) # <<"s","u","b">> THEN <<>>
    ELSE IF CharAt(s, p + 3) \in {"-", "_"} /\ re_zero(s, p + 4) # <<>>
         THEN re_zero(s, p + 4)
         ELSE re_zero(s, p + 3)

\* re.search: the leftmost position that matches; group(1) or <<>>
re_search(s) ==
    LET hits == {p \in 1..(Len(s) - 2) : re_match_at(s, p) # <<>>}
    IN  IF hits = {} THEN <<>>
        ELSE re_match_at(s, CHOOSE p \in hits : \A q \in hits : p <= q)

DigitVal(c) == Ord[c] - Ord["0"]
\* int(m.group(1))
IntOf(g) == IF Len(g) = 1 THEN DigitVal(g[1])
            ELSE 10 * DigitVal(g[1]) + DigitVal(g[2])
\* f"{n:02d}" for 0 <= n < 100
Fmt02d(n) == <<DigitChars[(n \div 10) + 1], DigitChars[(n % 10) + 1]>>

\* a plausible slip: the string is not lower-cased before the search
normalize_sub_code_nolower(s0) ==
    LET g == re_search(Strip(s0))
    IN  IF g = <<>> THEN None
        ELSE IF IntOf(g) \in {1, 4, 6, 7}
             THEN <<"s","u","b","-">> \o Fmt02d(IntOf(g))
             ELSE None

normalize_sub_code(s0) ==
    LET g == re_search(Lower(Strip(s0)))
    IN  IF g = <<>> THEN None
        ELSE IF IntOf(g) \in {1, 4, 6, 7}
             THEN <<"s","u","b","-">> \o Fmt02d(IntOf(g))
             ELSE None

(***************************************************************************)
(* select_subjects: the result is [ok, val, bad]; ok = FALSE stands for    *)
(* the ValueError raised on the spec `bad`, with no value returned.        *)
(***************************************************************************)
RECURSIVE select_loop(_, _, _)
select_loop(specs, k, out) ==
    IF k > Len(specs)
    THEN [ok |-> TRUE, val |-> Sorted(out), bad |-> <<>>]
    ELSE LET s == specs[k]
         IN  IF Upper(s) \in DOMAIN S_TO_SUB
             THEN select_loop(specs, k + 1, out \cup {S_TO_SUB[Upper(s)]})
             ELSE IF normalize_sub_code(s) # None
                  THEN select_loop(specs, k + 1, out \cup {normalize_sub_code(s)})
                  ELSE [ok |-> FALSE, val |-> <<>>, bad |-> s]

select_subjects(specs) ==
    IF specs = <<>>
    THEN [ok |-> TRUE, val |-> [i \in 1..Len(S_KEYS) |-> S_TO_SUB[S_KEYS[i]]],
          bad |-> <<>>]
    ELSE select_loop(specs, 1, {})


(***************************************************************************)
(* State.                                                                  *)
(*   subjects  target["subjects"] of the configuration                     *)
(*   files     the "files" array of the Figshare article                   *)
(*   tqdm      whether the tqdm import succeeded                           *)
(*   dir       the entries of dest_root: name -> [kind, data]              *)
(*   wanted, chosen, idx, manifest, pruned   the locals of main            *)
(*   doc       the content last written to attention_manifest.json        *)
(*   http      the file requests issued in the current run                 *)
(*   err       the exception that ended the run, "none" otherwise          *)
(*   pc, run   position in main and the number of the run                  *)
(*   selected  the result of select_subjects                               *)
(* History, kept for the properties only:                                  *)
(*   dirStart  dest_root when the current run started                      *)
(*   rmFailed  the entries whose removal failed in the current run         *)
(*   wrote     whether the current run has written the manifest            *)
(*   past      how the earlier runs ended                                  *)
(***************************************************************************)
VARIABLES subjects, files, tqdm, dir, wanted, chosen, idx, manifest, pruned,
          doc, http, err, pc, run, selected, dirStart, rmFailed, wrote, past

vars == <<subjects, files, tqdm, dir, wanted, chosen, idx, manifest, pruned,
          doc, http, err, pc, run, selected, dirStart, rmFailed, wrote, past>>

\* a dictionary key that is not there
Absent == "<absent>"

NoResult == [ok |-> FALSE, val |-> <<>>, bad |-> <<>>]
NoDoc == [downloaded |-> <<>>, pruned |-> {}]

(***************************************************************************)
(* Subject specs the selector is tried on.                                 *)
(***************************************************************************)
ShortSpecs == {<<a, b>> : a \in {"S", "s"}, b \in {"1", "2", "3", "4", "5"}}
SubStems == {<<"s","u","b">>, <<"S","U","B">>, <<"S","u","b">>}
SubSpecs == {st \o sep \o pad \o <<d>> :
                st \in SubStems, sep \in {<<>>, <<"-">>, <<"_">>},
                pad \in {<<>>, <<"0">>}, d \in {"1", "4", "6", "7", "2"}}
OddSpecs == { <<>>, <<"b","o","g","u","s">>, <<"s","u","b">>,
              <<"s","u","b","-">>, <<"s","u","b","-","0">>,
              <<"s","u","b","-","6","0">>, <<"s","u","b","-","1","6">>,
              <<"s","u","b","-","0","0","6">>, <<"s","u","b","-","0","6","1">>,
              <<"s","u","b","-","-","6">>,
              <<"x","s","u","b","-","0","6","y">>,
              <<" ","s","u","b","-","0","6"," ">>,
              <<" ","S","1">>, <<"S","1"," ">>, <<"S","0","1">>,
              <<"s","u","b","0","s","u","b","7">> }
SpecPool == ShortSpecs \cup SubSpecs \cup OddSpecs
TailPool == { <<"S","4">>, <<"s","1">>, <<"s","u","b","_","0","7">>,
              <<"b","o","g","u","s">> }

RECURSIVE SeqsUpTo(_, _)
SeqsUpTo(S, n) ==
    IF n = 0 THEN {<<>>}
    ELSE LET shorter == SeqsUpTo(S, n - 1)
         IN  shorter \cup {Append(q, x) : q \in shorter, x \in S}

\* the lists of specs: any first spec, followed by up to MaxSpecs - 1 more
SpecLists == {<<>>} \cup {<<s>> \o t : s \in SpecPool, t \in SeqsUpTo(TailPool, MaxSpecs - 1)}

\* the variables of main, at rest
MainIdle ==
    /\ files = <<>> /\ tqdm = FALSE
    /\ dir = <<>> /\ dirStart = <<>>
    /\ wanted = {} /\ chosen = <<>> /\ idx = 0
    /\ manifest = <<>> /\ pruned = {} /\ doc = NoDoc
    /\ http = <<>> /\ err = "none" /\ run = 0
    /\ rmFailed = {} /\ wrote = FALSE /\ past = <<>>

(***************************************************************************)
(* The selector on its own.                                                *)
(***************************************************************************)
InitSelect ==
    /\ subjects \in SpecLists
    /\ selected = NoResult
    /\ pc = "select"
    /\ MainIdle

SelectSubjects ==
    /\ pc = "select"
    /\ selected' = select_subjects(subjects)
    /\ pc' = "selected"
    /\ UNCHANGED <<subjects, files, tqdm, dir, wanted, chosen, idx, manifest,
                   pruned, doc, http, err, run, dirStart, rmFailed, wrote, past>>

NextSelect == SelectSubjects

SpecSelect == InitSelect /\ [][NextSelect]_vars


(***************************************************************************)
(* The selection loop of main.  A catalog entry is a record [name,         *)
(* download_url, url, supplied_url, md5]; a field holds Absent when the    *)
(* key is missing and "" when its value is empty or null.                  *)
(***************************************************************************)
Truthy(v) == v \notin {Absent, ""}

\* fi.get("download_url") or fi.get("url") or fi.get("supplied_url")
first_url(fi) ==
    IF Truthy(fi.download_url) THEN fi.download_url
    ELSE IF Truthy(fi.url) THEN fi.url
    ELSE IF Truthy(fi.supplied_url) THEN fi.supplied_url
    ELSE ""

\* a plausible slip: the "vc" test is left out
looks_like_attention_fmri_novc(name) ==
    LET lo == Lower(name)
    IN  /\ EndsWith(lo, <<".","h","5">>)
        /\ Contains(lo, <<"a","t","t","e","n","t","i","o","n">>)

looks_like_attention_fmri(name) ==
    LET lo == Lower(name)
    IN  /\ EndsWith(lo, <<".","h","5">>)
        /\ Contains(lo, <<"a","t","t","e","n","t","i","o","n">>)
        /\ Contains(lo, <<"v","c">>)

\* fi["__sub"] = sub; fi["__S"] = SUB_TO_S.get(sub, "Sx")
annotate(fi, sub) ==
    [sub |-> sub,
     S |-> IF sub \in DOMAIN SUB_TO_S THEN SUB_TO_S[sub] ELSE <<"S","x">>] @@ fi

RECURSIVE choose_loop(_, _, _, _)
choose_loop(fs, want, k, acc) ==
    IF k > Len(fs) THEN acc
    ELSE LET fi == fs[k]
             sub == normalize_sub_code(fi.name)
         IN  IF fi.name = <<>> \/ ~Truthy(first_url(fi))
             THEN choose_loop(fs, want, k + 1, acc)
             ELSE IF ~looks_like_attention_fmri(fi.name)
             THEN choose_loop(fs, want, k + 1, acc)
             ELSE IF sub # None /\ sub \in want
             THEN choose_loop(fs, want, k + 1, Append(acc, annotate(fi, sub)))
             ELSE choose_loop(fs, want, k + 1, acc)

choose_files(fs, want) == choose_loop(fs, want, 1, <<>>)

(***************************************************************************)
(* Catalogs the selection is tried on.                                     *)
(***************************************************************************)
NameSubjects == { <<"s","u","b","-","0","1">>, <<"S","U","B","_","0","6">>,
                  <<"s","u","b","-","1">>, <<"s","u","b","0","7">>,
                  <<"s","u","b","-","9","9">>, <<"s","u","b","-","0","2">>,
                  <<"s","u","b","-","0","1","1">>, <<"s","u","b","-","0","4">>,
                  <<"s","0","4">>, <<>> }
NameMiddles == { <<"_","a","t","t","e","n","t","i","o","n","_","v","c">>,
                 <<"_","A","t","t","e","n","t","i","o","n","_","V","C">>,
                 <<"_","v","c","_","a","t","t","e","n","t","i","o","n">>,
                 <<"_","a","t","t","e","n","t","i","o","n">>,
                 <<"_","v","c">>,
                 <<"_","o","t","h","e","r">> }
NameExts == { <<".","h","5">>, <<".","H","5">>, <<".","h","d","f">>,
              <<".","h","5",".","t","x","t">> }
FilterNames == {<<>>} \cup {s \o m \o e : s \in NameSubjects, m \in NameMiddles, e \in NameExts}

\* the ways an entry supplies its URL
UrlShapes == { [download_url |-> "u1", url |-> Absent, supplied_url |-> Absent],
               [download_url |-> Absent, url |-> "u1", supplied_url |-> Absent],
               [download_url |-> "", url |-> "", supplied_url |-> "u1"],
               [download_url |-> Absent, url |-> "", supplied_url |-> Absent] }
FilterEntries == {[name |-> n, md5 |-> Absent] @@ u : n \in FilterNames, u \in UrlShapes}
FilterTail == { [name |-> <<"s","u","b","-","0","1">> \o
                          <<"_","a","t","t","e","n","t","i","o","n","_","v","c",".","h","5">>,
                 download_url |-> "u2", url |-> Absent, supplied_url |-> Absent,
                 md5 |-> Absent],
                [name |-> <<"s","u","b","-","9","9","_","o","t","h","e","r",".","h","5">>,
                 download_url |-> "u3", url |-> Absent, supplied_url |-> Absent,
                 md5 |-> Absent] }
FilterCatalogs == {<<>>} \cup {<<e>> \o t : e \in FilterEntries, t \in SeqsUpTo(FilterTail, MaxFiles - 1)}
WantedSets == { SUB_CODES, {<<"s","u","b","-","0","1">>},
                {<<"s","u","b","-","0","6">>, <<"s","u","b","-","0","4">>} }

InitFilter ==
    /\ files \in FilterCatalogs
    /\ wanted \in WantedSets
    /\ pc = "filter"
    /\ subjects = <<>> /\ selected = NoResult
    /\ tqdm = FALSE /\ dir = <<>> /\ dirStart = <<>>
    /\ chosen = <<>> /\ idx = 0
    /\ manifest = <<>> /\ pruned = {} /\ doc = NoDoc
    /\ http = <<>> /\ err = "none" /\ run = 0
    /\ rmFailed = {} /\ wrote = FALSE /\ past = <<>>

SelectFiles ==
    /\ pc = "filter"
    /\ chosen' = choose_files(files, wanted)
    /\ pc' = "filtered"
    /\ UNCHANGED <<subjects, files, tqdm, dir, wanted, idx, manifest, pruned,
                   doc, http, err, run, selected, dirStart, rmFailed,
                   wrote, past>>

NextFilter == SelectFiles

SpecFilter == InitFilter /\ [][NextFilter]_vars

(***************************************************************************)
(* main.  dest_root is a function from entry names to [kind, data]; kind   *)
(* is "none", "file" or "dir".  The data of a flat file names where its    *)
(* bytes came from: the URL it was retrieved from, that URL followed by    *)
(* ".part" for a transfer cut short, "pre" for bytes of unknown origin.    *)
(***************************************************************************)
FlatSuffix == <<"_","a","t","t","e","n","t","i","o","n",".","h","5">>
\* f"{S}_attention.h5"
flat_name(S) == S \o FlatSuffix
MANIFEST_NAME == <<"a","t","t","e","n","t","i","o","n","_","m","a","n","i","f","e","s","t",
                   ".","j","s","o","n">>
allowed == {flat_name(S) : S \in DOMAIN S_TO_SUB} \cup {MANIFEST_NAME}

JunkName == <<"j","u","n","k",".","h","5">>
OldDirName == <<"o","l","d">>
StrayNames == {JunkName, OldDirName}
DirNames == allowed \cup StrayNames

NoEntry == [kind |-> "none", data |-> ""]
FileOf(d) == [kind |-> "file", data |-> d]
DirEntry == [kind |-> "dir", data |-> ""]
Present(d) == {n \in DOMAIN d : d[n].kind # "none"}

\* hashlib.md5 over the bytes of a file: one digest per content
Md5(data) == "md5:" \o data

\* dict.get(key): "" stands for None and the empty string alike
get(v) == IF v = Absent THEN "" ELSE v

\* a plausible slip: anything that ends in .h5 is kept
is_allowed_any_h5(name) ==
    EndsWith(name, <<".","h","5">>) \/ name = MANIFEST_NAME

\* p.name in allowed
is_allowed(name) == name \in allowed

\* a plausible slip: the existence test is dropped
needs_download_always(entry) == TRUE

\* not out_path.exists()
needs_download(entry) == entry.kind = "none"

\* a plausible slip: the early return is missing
after_select_noreturn(ch) == "loop"

\* if not chosen: return
after_select(ch) == IF ch = <<>> THEN "nomatch" ELSE "loop"

\* a plausible slip: the mismatch is raised outside the try block
on_md5_issue_raise(mismatch) == IF mismatch THEN "raise" ELSE "continue"

\* except Exception as e: print(...)
on_md5_issue(mismatch) == "continue"

\* a plausible slip: the name is appended only for directories
is_listed_dirs_only(entry, failed) == entry.kind = "dir"

\* pruned.append(p.name) is reached unless p.unlink() raised;
\* shutil.rmtree(p, ignore_errors=True) never raises
is_listed(entry, failed) == entry.kind = "dir" \/ ~failed

(***************************************************************************)
(* The inputs of the runs.                                                 *)
(***************************************************************************)
AttnVcH5 == <<"_","a","t","t","e","n","t","i","o","n","_","v","c",".","h","5">>
CatalogPool ==
    << [name |-> <<"s","u","b","-","0","1">> \o AttnVcH5,
        download_url |-> "u1", url |-> Absent, supplied_url |-> Absent,
        md5 |-> Md5("u1")],
       [name |-> <<"s","u","b","-","1","_","v","2">> \o AttnVcH5,
        download_url |-> "u2", url |-> Absent, supplied_url |-> Absent,
        md5 |-> Absent],
       [name |-> <<"S","U","B","_","0","6","_","A","t","t","e","n","t","i","o","n",
                   "_","V","C",".","H","5">>,
        download_url |-> "u3", url |-> Absent, supplied_url |-> Absent,
        md5 |-> "md5:other"],
       [name |-> <<"s","u","b","-","0","6">> \o AttnVcH5,
        download_url |-> Absent, url |-> "u4", supplied_url |-> Absent,
        md5 |-> Absent],
       [name |-> <<"s","u","b","-","9","9","_","o","t","h","e","r",".","h","5">>,
        download_url |-> "u5", url |-> Absent, supplied_url |-> Absent,
        md5 |-> Absent],
       [name |-> <<"s","u","b","-","0","4">> \o AttnVcH5,
        download_url |-> Absent, url |-> Absent, supplied_url |-> "u6",
        md5 |-> Absent] >>

\* the entries of q at the positions in P, in the order of q
RECURSIVE Pick(_, _, _)
Pick(q, P, k) ==
    IF k > Len(q) THEN <<>>
    ELSE (IF k \in P THEN <<q[k]>> ELSE <<>>) \o Pick(q, P, k + 1)

\* the catalogs: up to MaxCat entries of the pool, in the pool's order
Catalogs == {Pick(CatalogPool, P, 1) :
                P \in {Q \in SUBSET (1..Len(CatalogPool)) : Cardinality(Q) <= MaxCat}}

SubjectLists == { <<>>, << <<"S","4">> >>,
                  << <<"s","1">>, <<"s","u","b","-","0","1">> >>,
                  << <<"S","3">>, <<"b","o","g","u","s">> >> }

\* what may be in dest_root before the first run
PreEntries == { <<flat_name(<<"S","1">>), FileOf("pre")>>,
                <<flat_name(<<"S","3">>), FileOf("pre")>>,
                <<flat_name(<<"S","4">>), FileOf("pre")>>,
                <<flat_name(<<"S","4">>), DirEntry>>,
                <<MANIFEST_NAME, FileOf("pre")>>,
                <<MANIFEST_NAME, DirEntry>>,
                <<JunkName, FileOf("pre")>>,
                <<OldDirName, DirEntry>> }
PreSets == {P \in SUBSET PreEntries :
               /\ Cardinality(P) <= MaxPre
               /\ \A a \in P, b \in P : a[1] = b[1] => a = b}
DirOf(P) == [n \in DirNames |->
               IF \E a \in P : a[1] = n THEN (CHOOSE a \in P : a[1] = n)[2]
               ELSE NoEntry]

Init ==
    /\ subjects \in SubjectLists
    /\ files \in Catalogs
    /\ tqdm \in BOOLEAN
    /\ dir \in {DirOf(P) : P \in PreSets}
    /\ dirStart = dir
    /\ wanted = {} /\ chosen = <<>> /\ idx = 0
    /\ manifest = <<>> /\ pruned = {} /\ doc = NoDoc
    /\ http = <<>> /\ err = "none"
    /\ pc = "start" /\ run = 1
    /\ selected = NoResult
    /\ rmFailed = {} /\ wrote = FALSE /\ past = <<>>

\* select_subjects and the selection loop on the inputs of the runs,
\* evaluated once per input
SelectOn == [s \in SubjectLists |-> select_subjects(s)]
ChooseOn == [c \in Catalogs |->
               [s \in SubjectLists |-> choose_files(c, Range(SelectOn[s].val))]]

\* lines 88-120: configuration, wanted subjects, catalog, selection
Begin ==
    /\ pc = "start"
    /\ \E env \in {"ok", "no target", "no catalog"} :
         LET sel == SelectOn[subjects]
             ch == ChooseOn[files][subjects]
         IN  IF env = "no target"
             THEN /\ pc' = "failed" /\ err' = "KeyError: target"
                  /\ UNCHANGED <<wanted, chosen, idx>>
             ELSE IF ~sel.ok
             THEN /\ pc' = "failed" /\ err' = "ValueError: subject"
                  /\ UNCHANGED <<wanted, chosen, idx>>
             ELSE IF env = "no catalog"
             THEN /\ pc' = "failed" /\ err' = "URLError: catalog"
                  /\ wanted' = Range(sel.val)
                  /\ UNCHANGED <<chosen, idx>>
             ELSE /\ wanted' = Range(sel.val)
                  /\ chosen' = ch
                  /\ idx' = 1
                  /\ pc' = after_select(ch)
                  /\ err' = "none"
    /\ UNCHANGED <<subjects, files, tqdm, dir, manifest, pruned, doc, http,
                   run, selected, dirStart, rmFailed, wrote, past>>

\* the requests _progress_urlretrieve issues for entry k
Requests(k, url) ==
    (IF tqdm THEN << [kind |-> "probe", url |-> url, k |-> k] >> ELSE <<>>)
    \o << [kind |-> "get", url |-> url, k |-> k] >>

\* lines 123-151: one round of the download loop
ProcessFile ==
    /\ pc = "loop" /\ idx <= Len(chosen)
    /\ LET fi == chosen[idx]
           url == fi.download_url
           md5_remote == get(fi.md5)
           out == flat_name(fi.S)
       IN  IF url = Absent
           THEN \* fi["download_url"] raises
                /\ pc' = "failed" /\ err' = "KeyError: download_url"
                /\ UNCHANGED <<dir, http, manifest, idx>>
           ELSE \E outcome \in {"ok", "error", "short"} :
                LET fetch == needs_download(dir[out])
                    valid == url # ""
                    dirNext == IF ~fetch \/ ~valid \/ outcome = "error" THEN dir
                               ELSE IF outcome = "ok"
                               THEN [dir EXCEPT ![out] = FileOf(url)]
                               ELSE [dir EXCEPT ![out] = FileOf(url \o ".part")]
                    md5_local == IF dirNext[out].kind = "file"
                                 THEN Md5(dirNext[out].data) ELSE ""
                    mismatch == /\ md5_local # ""
                                /\ md5_remote # ""
                                /\ md5_local # md5_remote
                IN  /\ ~fetch => outcome = "ok"
                    /\ (fetch /\ ~valid) => outcome = "error"
                    /\ dir' = dirNext
                    /\ http' = IF fetch /\ valid THEN http \o Requests(idx, url) ELSE http
                    /\ IF fetch /\ outcome # "ok"
                       THEN /\ pc' = "failed"
                            /\ err' = IF valid THEN "URLError: download"
                                      ELSE "ValueError: unknown url type"
                            /\ UNCHANGED <<manifest, idx>>
                       ELSE IF on_md5_issue(mismatch) = "raise"
                       THEN /\ pc' = "failed" /\ err' = "ValueError: MD5 mismatch"
                            /\ UNCHANGED <<manifest, idx>>
                       ELSE /\ manifest' = Append(manifest,
                                               [api_name |-> fi.name,
                                                saved_as |-> out,
                                                subject_S |-> fi.S,
                                                download_url |-> url,
                                                md5_remote |-> md5_remote,
                                                md5_local |-> md5_local])
                            /\ idx' = idx + 1
                            /\ UNCHANGED <<pc, err>>
    /\ UNCHANGED <<subjects, files, tqdm, wanted, chosen, pruned, doc, run,
                   selected, dirStart, rmFailed, wrote, past>>

\* lines 153-175: pruning, then the manifest write
PruneAndWrite ==
    /\ pc = "loop" /\ idx > Len(chosen)
    /\ LET extras == {n \in Present(dir) : ~is_allowed(n)}
       IN  \E failed \in SUBSET extras :
             LET listed == {n \in extras : is_listed(dir[n], n \in failed)}
                 kept == [n \in DirNames |->
                            IF n \in extras /\ n \notin failed THEN NoEntry ELSE dir[n]]
             IN  /\ pruned' = listed
                 /\ rmFailed' = failed
                 /\ IF kept[MANIFEST_NAME].kind = "dir"
                    THEN \* write_text raises IsADirectoryError
                         /\ dir' = kept
                         /\ pc' = "failed" /\ err' = "IsADirectoryError: manifest"
                         /\ UNCHANGED <<doc, wrote>>
                    ELSE /\ dir' = [kept EXCEPT ![MANIFEST_NAME] = FileOf("run")]
                         /\ doc' = [downloaded |-> manifest, pruned |-> listed]
                         /\ wrote' = TRUE
                         /\ pc' = "done"
                         /\ UNCHANGED err
    /\ UNCHANGED <<subjects, files, tqdm, wanted, chosen, idx, manifest, http,
                   run, selected, dirStart, past>>

\* the program is started again on the same configuration and catalog
Rerun ==
    /\ pc \in {"done", "nomatch", "failed"}
    /\ run < MaxRuns
    /\ run' = run + 1
    /\ past' = Append(past, pc)
    /\ pc' = "start"
    /\ dirStart' = dir
    /\ wanted' = {} /\ chosen' = <<>> /\ idx' = 0
    /\ manifest' = <<>> /\ pruned' = {}
    /\ http' = <<>> /\ err' = "none"
    /\ rmFailed' = {} /\ wrote' = FALSE
    /\ UNCHANGED <<subjects, files, tqdm, dir, doc, selected>>

Next == Begin \/ ProcessFile \/ PruneAndWrite \/ Rerun

Spec == Init /\ [][Next]_vars

(***************************************************************************)
(* Properties of select_subjects (checked under SpecSelect).               *)
(***************************************************************************)
C5_Canon(d) == <<"s","u","b","-","0",d>>
C5_Casings == {<<a, b, c>> : a \in {"s","S"}, b \in {"u","U"}, c \in {"b","B"}}
C5_ShortCode(s) == Len(s) = 2 /\ s[1] \in {"S","s"} /\ s[2] \in {"1","2","3","4"}
C5_SubForm(s, seps, d) ==
    \E st \in C5_Casings, sep \in seps, pad \in {<<>>, <<"0">>} :
        s = st \o sep \o pad \o <<d>>
\* the canonical code the claim assigns to a spec, None where it assigns none
C5_Expected(s) ==
    IF C5_ShortCode(s)
    THEN CASE s[2] = "1" -> C5_Canon("6") [] s[2] = "2" -> C5_Canon("7")
           [] s[2] = "3" -> C5_Canon("4") [] s[2] = "4" -> C5_Canon("1")
    ELSE IF \E d \in {"1","4","6","7"} : C5_SubForm(s, {<<"-">>, <<"_">>}, d)
    THEN C5_Canon(CHOOSE d \in {"1","4","6","7"} : C5_SubForm(s, {<<"-">>, <<"_">>}, d))
    ELSE None
\* specs that are neither a short code nor a 'sub' form of 1, 4, 6 or 7
C5_Invalid(s) ==
    /\ ~C5_ShortCode(s)
    /\ \/ ~Contains(Lower(s), <<"s","u","b">>)
       \/ \E d \in Digits \ {"1","4","6","7"} :
              C5_SubForm(s, {<<>>, <<"-">>, <<"_">>}, d)
       \/ s \in { <<"s","u","b","-","6","0">>, <<"s","u","b","-","1","6">>,
                  <<"s","u","b","-","0","0","6">> }
C5_Examples == { <<"S","1">>, <<"s","1">>, <<"s","u","b","-","0","6">>,
                 <<"S","U","B","_","0","6">> }

\* C5: select_subjects maps short codes (any case) through the fixed table and
\* 'sub' forms with '-' or '_' and optional zero padding (any case) to
\* sub-01/04/06/07; "S1", "s1", "sub-06", "SUB_06" each give sub-06; a spec
\* that resolves to neither raises and returns nothing; the empty list gives
\* all four canonical codes.
C5_SelectResolves ==
    pc = "selected" =>
        /\ subjects = <<>> =>
              /\ selected.ok
              /\ Len(selected.val) = 4
              /\ Range(selected.val) = {C5_Canon(d) : d \in {"1","4","6","7"}}
        /\ (subjects # <<>> /\ \A k \in 1..Len(subjects) : C5_Expected(subjects[k]) # None) =>
              /\ selected.ok
              /\ Range(selected.val) = {C5_Expected(subjects[k]) : k \in 1..Len(subjects)}
        /\ (Len(subjects) = 1 /\ subjects[1] \in C5_Examples) =>
              selected.val = <<C5_Canon("6")>>
        /\ (\E k \in 1..Len(subjects) : C5_Invalid(subjects[k])) =>
              /\ ~selected.ok
              /\ selected.val = <<>>
              /\ selected.bad # <<>> \/ <<>> \in Range(subjects)

C5_Witness ==
    /\ pc = "selected"
    /\ subjects = << <<"S","U","B","_","0","6">>, <<"S","4">> >>
    /\ selected.ok
    /\ selected.val = << C5_Canon("1"), C5_Canon("6") >>

(***************************************************************************)
(* Properties of the selection loop (checked under SpecFilter).            *)
(***************************************************************************)
C6_NameOk(name) ==
    /\ EndsWith(Lower(name), <<".","h","5">>)
    /\ Contains(Lower(name), <<"a","t","t","e","n","t","i","o","n">>)
    /\ Contains(Lower(name), <<"v","c">>)
C6_SubjectOk(fi) ==
    /\ normalize_sub_code(fi.name) \in {C5_Canon(d) : d \in {"1","4","6","7"}}
    /\ normalize_sub_code(fi.name) \in wanted
C6_HasUrl(fi) ==
    \E u \in {fi.download_url, fi.url, fi.supplied_url} : u \notin {Absent, ""}
C6_ShortOf(sub) ==
    CASE sub = C5_Canon("6") -> <<"S","1">> [] sub = C5_Canon("7") -> <<"S","2">>
      [] sub = C5_Canon("4") -> <<"S","3">> [] sub = C5_Canon("1") -> <<"S","4">>
C6_KeepByName(fi) == C6_NameOk(fi.name) /\ C6_SubjectOk(fi)
C6_Keep(fi) == C6_KeepByName(fi) /\ C6_HasUrl(fi)
\* chosen is the entries of kept, in order, each with its two annotations
C6_Matches(kept) ==
    /\ Len(chosen) = Len(kept)
    /\ \A k \in 1..Len(kept) :
          /\ \A f \in DOMAIN kept[k] : chosen[k][f] = kept[k][f]
          /\ chosen[k].sub = normalize_sub_code(kept[k].name)
          /\ chosen[k].S = C6_ShortOf(chosen[k].sub)
C6_Sub01Name == <<"s","u","b","-","0","1">> \o AttnVcH5
C6_Sub99Name == <<"s","u","b","-","9","9","_","o","t","h","e","r",".","h","5">>

\* C6 as stated: the selection keeps exactly the entries whose name ends in
\* .h5 and contains 'attention' and 'vc' (any case) and whose derived subject
\* code is one of the four and wanted, each annotated with its codes.
C6_KeepsExactlyByName ==
    pc = "filtered" => C6_Matches(SelectSeq(files, C6_KeepByName))

\* C6 (amended): the selection keeps exactly the entries that pass the name
\* and subject tests and supply a non-empty download_url, url or
\* supplied_url; each kept entry carries its canonical code and short code
\* (sub-01 -> S4), and sub-99_other.h5 is never kept.
C6_KeepsByNameAndUrl ==
    pc = "filtered" =>
        /\ C6_Matches(SelectSeq(files, C6_Keep))
        /\ \A k \in 1..Len(chosen) :
              /\ chosen[k].name # C6_Sub99Name
              /\ chosen[k].name = C6_Sub01Name =>
                    /\ chosen[k].sub = C5_Canon("1")
                    /\ chosen[k].S = <<"S","4">>

C6_Witness ==
    /\ pc = "filtered"
    /\ Len(files) = 2
    /\ files[1].name = C6_Sub01Name /\ files[1].download_url = "u1"
    /\ files[2].name = C6_Sub99Name
    /\ Len(chosen) = 1
    /\ chosen[1].sub = C5_Canon("1") /\ chosen[1].S = <<"S","4">>

(***************************************************************************)
(* Properties of main (checked under Spec).                                *)
(***************************************************************************)
FlatNames == { <<"S","1">> \o FlatSuffix, <<"S","2">> \o FlatSuffix,
               <<"S","3">> \o FlatSuffix, <<"S","4">> \o FlatSuffix }
ChosenFlat == {chosen[k].S \o FlatSuffix : k \in 1..Len(chosen)}
Strays(d) == Present(d) \ (FlatNames \cup {MANIFEST_NAME})

\* C1 as stated: after a full run the entries of the destination are exactly
\* Sk_attention.h5 for the requested and offered subjects, plus the manifest.
C1_ExactlyRequested ==
    pc = "done" => Present(dir) = ChosenFlat \cup {MANIFEST_NAME}

\* C1 (amended): after a full run the entries of the destination are exactly
\* the flat files Sk_attention.h5 that were there before the run, those of the
\* selected subjects, the manifest, and the other entries whose removal failed.
C1_FinalEntries ==
    pc = "done" =>
        Present(dir) = (Present(dirStart) \cap FlatNames) \cup ChosenFlat
                         \cup {MANIFEST_NAME} \cup rmFailed

C1_Witness ==
    /\ pc = "done"
    /\ dirStart[JunkName].kind = "file" /\ dir[JunkName].kind = "none"
    /\ dirStart[<<"S","3">> \o FlatSuffix].kind = "file"
    /\ dir[<<"S","3">> \o FlatSuffix].kind = "file"
    /\ (<<"S","3">> \o FlatSuffix) \notin ChosenFlat

\* C2 as stated: every entry that is in the destination before a run and is
\* not one of the five allowed names is absent after the run and named in the
\* pruned array of the written manifest.
C2_StrayAlwaysPruned ==
    pc \in {"done", "nomatch"} =>
        \A n \in Strays(dirStart) :
            /\ dir[n].kind = "none"
            /\ wrote /\ n \in doc.pruned

\* C2 (amended): after a run that reaches the manifest write, every such
\* entry whose removal did not fail is absent and named in the pruned array.
C2_StrayPruned ==
    pc = "done" =>
        \A n \in Strays(dirStart) \ rmFailed :
            /\ dir[n].kind = "none"
            /\ n \in doc.pruned

C2_Witness ==
    /\ pc = "done"
    /\ dirStart[JunkName].kind = "file"
    /\ JunkName \notin rmFailed
    /\ dir[JunkName].kind = "none"
    /\ JunkName \in doc.pruned

C3_DownloadErrors == {"KeyError: download_url", "URLError: download",
                      "ValueError: unknown url type"}
\* the file of selected entry k is there and its digest differs from the remote one
C3_Mismatch(d, k) ==
    /\ chosen[k].md5 \notin {Absent, ""}
    /\ d[chosen[k].S \o FlatSuffix].kind = "file"
    /\ Md5(d[chosen[k].S \o FlatSuffix].data) # chosen[k].md5
C3_Step ==
    (/\ pc = "loop" /\ idx <= Len(chosen)
     /\ err' \notin C3_DownloadErrors
     /\ C3_Mismatch(dir', idx))
    => /\ pc' = "loop" /\ err' = "none"
       /\ idx' = idx + 1
       /\ Len(manifest') = Len(manifest) + 1
       /\ SubSeq(manifest', 1, Len(manifest)) = manifest
       /\ manifest'[idx].md5_remote = chosen[idx].md5
       /\ manifest'[idx].md5_local = Md5(dir'[chosen[idx].S \o FlatSuffix].data)
       /\ manifest'[idx].md5_remote # manifest'[idx].md5_local
C3_Ends ==
    /\ pc = "failed" =>
          err \in C3_DownloadErrors \cup {"KeyError: target", "ValueError: subject",
                                          "URLError: catalog",
                                          "IsADirectoryError: manifest"}
    /\ pc = "done" =>
          /\ wrote /\ dir[MANIFEST_NAME].kind = "file"
          /\ Len(doc.downloaded) = Len(chosen)
          /\ \A k \in 1..Len(chosen) :
                C3_Mismatch(dir, k) =>
                    /\ doc.downloaded[k].md5_remote = chosen[k].md5
                    /\ doc.downloaded[k].md5_local # ""
                    /\ doc.downloaded[k].md5_local # doc.downloaded[k].md5_remote

\* C3: a checksum mismatch on a selected file never halts the run: the loop
\* goes on to the next file, no run ends on it, the manifest is written with
\* one record per selected file, and the record of the mismatching file
\* carries both digests, which differ.
C3_MismatchNotFatal == [][C3_Step]_vars /\ []C3_Ends

C3_Witness ==
    /\ pc = "done"
    /\ Len(doc.downloaded) = 2
    /\ C3_Mismatch(dir, 1)
    /\ doc.downloaded[1].md5_local # doc.downloaded[1].md5_remote
    /\ doc.downloaded[2].saved_as # doc.downloaded[1].saved_as
    /\ Strays(dirStart) # {} /\ doc.pruned # {}

C4_Step ==
    (/\ pc = "loop" /\ idx <= Len(chosen)
     /\ dir[chosen[idx].S \o FlatSuffix].kind # "none")
    => /\ http' = http
       /\ dir' = dir
C4_SecondRun ==
    (run >= 2 /\ past[run - 1] = "done") => http = <<>>

\* C4: a selected file whose destination Sk_attention.h5 exists when it is
\* processed causes no request (probe or retrieval) and the existing entry is
\* left as it is; a run that follows a completed run issues no file request.
C4_SkipsExisting == [][C4_Step]_vars /\ []C4_SecondRun

C4_Witness ==
    /\ run = 2 /\ past = <<"done">> /\ pc = "done"
    /\ http = <<>>
    /\ \E k \in 1..Len(doc.downloaded) :
          dir[doc.downloaded[k].saved_as] = FileOf(doc.downloaded[k].download_url)

\* C7: when the selection keeps no entry, the run ends without an error,
\* issues no request, leaves every entry of the destination as it was and
\* does not write the manifest.
C7_NoMatchNoEffect ==
    (/\ chosen = <<>>
     /\ \/ pc \in {"nomatch", "loop", "done"}
        \/ pc = "failed" /\ err \notin {"KeyError: target", "ValueError: subject",
                                         "URLError: catalog"})
    => /\ pc = "nomatch"
       /\ err = "none"
       /\ http = <<>>
       /\ dir = dirStart
       /\ ~wrote

C7_Witness ==
    /\ pc = "nomatch"
    /\ files # <<>>
    /\ dir[JunkName].kind = "file"
    /\ dir[MANIFEST_NAME].kind = "file"

\* C8: the pruned array of the written manifest lists exactly the names that
\* were removed: every listed name is absent after the run, and no entry
\* whose removal failed is listed.
C8_PrunedExact ==
    pc = "done" =>
        /\ \A n \in doc.pruned : dir[n].kind = "none"
        /\ \A n \in rmFailed : n \notin doc.pruned

\* C9: every selected entry is downloaded from the first non-empty of its
\* download_url, url and supplied_url, and an entry that has its URL only
\* under url or supplied_url is recorded rather than aborting the run.
C9_QualifyingUrlUsed ==
    /\ err \notin {"KeyError: download_url", "ValueError: unknown url type"}
    /\ \A k \in 1..Len(manifest) : manifest[k].download_url = first_url(chosen[k])
    /\ \A j \in 1..Len(http) : http[j].url = first_url(chosen[http[j].k])

\* C10: in every written manifest no two records share saved_as, and the file
\* at each record's saved_as was fetched from that record's download_url
\* (files of unknown origin that were there before the first run aside).
C10_OneRecordPerFile ==
    pc = "done" =>
        /\ \A j, k \in 1..Len(doc.downloaded) :
              doc.downloaded[j].saved_as = doc.downloaded[k].saved_as => j = k
        /\ \A k \in 1..Len(doc.downloaded) :
              LET r == doc.downloaded[k]
              IN  (dir[r.saved_as].kind = "file" /\ dir[r.saved_as].data # "pre")
                  => dir[r.saved_as].data \in {r.download_url, r.download_url \o ".part"}

=============================================================================
